---- MODULE Spec2Model ----
(***************************************************************************)
(* The application-model tree of the admin store (frontend2):              *)
(*   - searchApplicationModel           (src/frontend2/src/api/utils.ts)   *)
(*   - initApplicationModel, setNetworks, setApplicationModel              *)
(*                               (src/frontend2/src/store/admin/mutations.ts) *)
(*   - actionGetNetworks, actionUpdateApplicationModelChildren             *)
(*                               (src/frontend2/src/store/admin/actions.ts)   *)
(* Asynchronous actions are split at their awaits: one TLA+ action is the  *)
(* code that runs between two awaits of the single-threaded event loop.    *)
(***************************************************************************)
EXTENDS Integers, Sequences, FiniteSets, TLC

\* ------------------------------------------------------------------ bounds
MaxNetworks == 2    \* longest network list the backend returns
MaxChildren == 2    \* longest child list the backend returns
MaxEntries  == 3    \* most entries (roots and descendants) the forest holds
MaxFetches  == 1    \* children fetches dispatched by the tree view in flight at once
MaxLocate   == 4    \* most entries of a forest handed to the locator on its own
MaxOpen     == 1    \* most entries the tree view holds open at once
MaxShown    == 1    \* longest child list returned while the tree view is modelled

\* ------------------------------------------------------- value domains
\* the id of an entry is a number; NullId stands for a null/absent id
NullId == 0 - 1

NetworkIds   == {0, 1}
NetworkNames == {"a"}
ChildIds     == {1, 2}
ChildTypes   == {"node", "user_group"}
ChildNames   == {"c"}
PayloadIds   == {NullId, 0, 1}
PayloadTypes == {"network", "node"}
Types        == {"interface", "network", "node", "user_group"}
Engines      == {"insertion", "timsort"}
LocateIds    == {1, 2}
LocateTypes  == {"network", "node"}

\* records of GET /nodes/networks/ and GET /nodes/{id}/children
NetworkRecords == [id : NetworkIds, name : NetworkNames]
ChildRecords   ==
  {r \in [child_id : ChildIds, child_name : ChildNames, child_type : ChildTypes] :
     r.child_type = "user_group" => r.child_id = 1}

SeqsUpTo(S, n) == UNION {[1..k -> S] : k \in 0..n}

NetworkLists   == SeqsUpTo(NetworkRecords, MaxNetworks)
ChildLists     == SeqsUpTo(ChildRecords, MaxChildren)
Payloads       == [id : PayloadIds, type : PayloadTypes]

\* ----------------------------------------------------------------- state
VARIABLES
  applicationModel,  \* state.applicationModel: the forest, a sequence of roots
  networks,          \* state.networks.records
  fetches,           \* api.getNodeChildren requests in flight, in issue order
  loader,            \* the running actionGetNetworks: its position and loop
  engine,            \* the sort algorithm of the JavaScript engine in use
  view,              \* the ConfigureApplication component: selected, open,
                     \* active, and its running onOpen
  last               \* the step taken last (history, for stating properties)

vars == <<applicationModel, networks, fetches, loader, engine, view, last>>

\* ------------------------------------------------- JavaScript primitives
\* truthiness of a number-or-null: null and 0 are falsy
Truthy(id) == id # NullId /\ id # 0

\* position of a type string in lexicographic (code unit) order
TypeRank(t) ==
  CASE t = "interface"  -> 1
    [] t = "network"    -> 2
    [] t = "node"       -> 3
    [] t = "user_group" -> 4

\* s < t on strings
StrLess(s, t) == TypeRank(s) < TypeRank(t)

\* variant: the id comes first
Key_IdFirst(type, id) == ToString(id) \o "-" \o type

\* the template literal `${type}-${id}`
Key(type, id) == type \o "-" \o ToString(id)

\* ------------------------------------------------------------ the forest
\* An ApplicationModelEntry is [id, name, type, key, children]; a location in
\* the forest is the sequence of indices leading to the entry.  The locator's
\* result is <<>> (null) or <<path>> (the entry found, by reference).

RECURSIVE searchApplicationModelInstance(_, _, _)
RECURSIVE SearchChildren(_, _, _, _)

\* the for loop of searchApplicationModelInstance, from index i on
SearchChildren(children, i, id, type) ==
  IF i > Len(children) THEN <<>>
  ELSE LET result == searchApplicationModelInstance(children[i], id, type)
       IN  IF result # <<>> THEN << <<i>> \o result[1] >>
           ELSE SearchChildren(children, i + 1, id, type)

\* variant: the entry is matched by id alone
searchApplicationModelInstance_IdOnly(element, id, type) ==
  IF element.id = id THEN << <<>> >>
  ELSE SearchChildren(element.children, 1, id, type)

\* variant: the children are searched before the entry itself is tested
searchApplicationModelInstance_ChildrenFirst(element, id, type) ==
  LET below == SearchChildren(element.children, 1, id, type)
  IN  IF below # <<>> THEN below
      ELSE IF element.id = id /\ element.type = type THEN << <<>> >>
      ELSE <<>>

searchApplicationModelInstance(element, id, type) ==
  IF element.id = id /\ element.type = type THEN << <<>> >>
  ELSE SearchChildren(element.children, 1, id, type)

RECURSIVE SearchRoots(_, _, _, _)
SearchRoots(model, i, id, type) ==
  IF i > Len(model) THEN <<>>
  ELSE LET result == searchApplicationModelInstance(model[i], id, type)
       IN  IF result # <<>> THEN << <<i>> \o result[1] >>
           ELSE SearchRoots(model, i + 1, id, type)

\* variant: the first root of the type asked for is returned, whatever its id
searchApplicationModel_TypeOnly(model, id, type) ==
  LET roots == {i \in 1..Len(model) : model[i].type = type}
  IN  IF roots = {} THEN <<>>
      ELSE << << CHOOSE i \in roots : \A j \in roots : i <= j >> >>

searchApplicationModel(model, id, type) == SearchRoots(model, 1, id, type)

\* the entry a location refers to
RECURSIVE EntryAt(_, _)
EntryAt(entries, path) ==
  IF Len(path) = 1 THEN entries[path[1]]
  ELSE EntryAt(entries[path[1]].children, Tail(path))

\* variant: the siblings of the entry assigned to lose their children
RECURSIVE AssignChildren_ResetSiblings(_, _, _)
AssignChildren_ResetSiblings(entries, path, children) ==
  IF Len(path) = 1
  THEN [i \in 1..Len(entries) |->
          [entries[i] EXCEPT !.children = IF i = path[1] THEN children ELSE <<>>]]
  ELSE [entries EXCEPT ![path[1]].children =
          AssignChildren_ResetSiblings(entries[path[1]].children, Tail(path), children)]

\* entries with `children` assigned on the entry at `path`
RECURSIVE AssignChildren(_, _, _)
AssignChildren(entries, path, children) ==
  IF Len(path) = 1
  THEN [entries EXCEPT ![path[1]].children = children]
  ELSE [entries EXCEPT ![path[1]].children =
          AssignChildren(entries[path[1]].children, Tail(path), children)]

\* the locations of all entries of a forest
RECURSIVE Paths(_)
Paths(entries) ==
  UNION {{<<i>>} \cup {<<i>> \o p : p \in Paths(entries[i].children)} :
           i \in 1..Len(entries)}

\* the locations of the entries with the given id and type
Matches(model, id, type) ==
  {p \in Paths(model) : EntryAt(model, p).id = id /\ EntryAt(model, p).type = type}

\* number of entries of a forest, descendants included
RECURSIVE Size(_)
Size(entries) ==
  IF entries = <<>> THEN 0
  ELSE 1 + Size(Head(entries).children) + Size(Tail(entries))

\* ------------------------------------------------------------- mutations
\* variant: the key is built from the name of the network
initApplicationModel_NameKey(records) ==
  [i \in 1..Len(records) |->
     [id       |-> records[i].id,
      type     |-> "network",
      name     |-> records[i].name,
      key      |-> "network-" \o records[i].name,
      children |-> <<>>]]

\* variant: a network that is already a root keeps the children it has
initApplicationModel_KeepChildren(records) ==
  [i \in 1..Len(records) |->
     [id       |-> records[i].id,
      type     |-> "network",
      name     |-> records[i].name,
      key      |-> Key("network", records[i].id),
      children |-> IF \E j \in 1..Len(applicationModel) :
                        applicationModel[j].id = records[i].id
                   THEN (CHOOSE e \in {applicationModel[j] : j \in 1..Len(applicationModel)} :
                           e.id = records[i].id).children
                   ELSE <<>>]]

\* variant: the roots built are pushed onto the forest there is
initApplicationModel_Append(records) ==
  applicationModel \o
    [i \in 1..Len(records) |->
       [id       |-> records[i].id,
        type     |-> "network",
        name     |-> records[i].name,
        key      |-> Key("network", records[i].id),
        children |-> <<>>]]

initApplicationModel(records) ==
  [i \in 1..Len(records) |->
     [id       |-> records[i].id,
      type     |-> "network",
      name     |-> records[i].name,
      key      |-> Key("network", records[i].id),
      children |-> <<>>]]

\* ------------------------------------------------- sorting the response
\* s > t on strings
StrGreater(s, t) == TypeRank(s) > TypeRank(t)

\* the comparator handed to response.data.sort
CompareChildren(a, b) ==
  IF a.child_type = b.child_type THEN a.child_id - b.child_id
  ELSE IF StrLess(a.child_type, b.child_type) THEN 1
  ELSE IF StrGreater(b.child_type, a.child_type) THEN 0 - 1
  ELSE 0

\* Array.prototype.sort leaves the order implementation-defined when the
\* comparator is not a consistent one, so the algorithm of the engine is part
\* of the model.  "insertion": the linear insertion sort engines use on short
\* arrays (shift while comparefn(a[j], element) > 0).
RECURSIVE InsertionPoint(_, _, _)
InsertionPoint(a, j, element) ==
  IF j >= 1 /\ CompareChildren(a[j], element) > 0
  THEN InsertionPoint(a, j - 1, element)
  ELSE j

InsertAt(a, from, to) ==
  \* a with the element at index `from` moved down to index `to` (to <= from)
  SubSeq(a, 1, to - 1) \o <<a[from]>> \o SubSeq(a, to, from - 1)
    \o SubSeq(a, from + 1, Len(a))

RECURSIVE InsertionSortFrom(_, _)
InsertionSortFrom(a, i) ==
  IF i > Len(a) THEN a
  ELSE InsertionSortFrom(InsertAt(a, i, InsertionPoint(a, i - 1, a[i]) + 1), i + 1)

InsertionSort(a) == InsertionSortFrom(a, 2)

\* "timsort": on an array shorter than its minimum run length, TimSort counts
\* the initial run (reversing a strictly descending one) and extends it by
\* binary insertion (comparefn(pivot, a[mid]) < 0 moves left).
RECURSIVE RunEnd(_, _, _)
RunEnd(a, idx, isDescending) ==
  IF idx > Len(a) THEN idx - 1
  ELSE LET order == CompareChildren(a[idx], a[idx - 1])
       IN  IF isDescending
           THEN IF order >= 0 THEN idx - 1 ELSE RunEnd(a, idx + 1, isDescending)
           ELSE IF order < 0 THEN idx - 1 ELSE RunEnd(a, idx + 1, isDescending)

ReversePrefix(a, n) ==
  [i \in 1..Len(a) |-> IF i <= n THEN a[n + 1 - i] ELSE a[i]]

RECURSIVE BinarySearchLeft(_, _, _, _)
BinarySearchLeft(a, left, right, pivot) ==
  IF left < right
  THEN LET mid == left + ((right - left) \div 2)
       IN  IF CompareChildren(pivot, a[mid]) < 0
           THEN BinarySearchLeft(a, left, mid, pivot)
           ELSE BinarySearchLeft(a, mid + 1, right, pivot)
  ELSE left

RECURSIVE BinaryInsertionSort(_, _)
BinaryInsertionSort(a, start) ==
  IF start > Len(a) THEN a
  ELSE BinaryInsertionSort(InsertAt(a, start, BinarySearchLeft(a, 1, start, a[start])),
                           start + 1)

TimSort(a) ==
  IF Len(a) < 2 THEN a
  ELSE LET isDescending == CompareChildren(a[2], a[1]) < 0
           runLength    == RunEnd(a, 3, isDescending)
           run          == IF isDescending THEN ReversePrefix(a, runLength) ELSE a
       IN  BinaryInsertionSort(run, runLength + 1)

\* response.data.sort(comparator) under the given engine
SortChildren(data, eng) ==
  IF eng = "insertion" THEN InsertionSort(data) ELSE TimSort(data)

\* variant: the key is the id alone
ChildEntries_IdKey(sorted) ==
  [i \in 1..Len(sorted) |->
     [id       |-> sorted[i].child_id,
      name     |-> sorted[i].child_name,
      type     |-> sorted[i].child_type,
      key      |-> ToString(sorted[i].child_id),
      children |-> <<>>]]

\* variant: a child node is given the type of a root
ChildEntries_RootType(sorted) ==
  [i \in 1..Len(sorted) |->
     [id       |-> sorted[i].child_id,
      name     |-> sorted[i].child_name,
      type     |-> IF sorted[i].child_type = "node" THEN "network"
                   ELSE sorted[i].child_type,
      key      |-> Key(sorted[i].child_type, sorted[i].child_id),
      children |-> <<>>]]

\* sorted_result.map(child => childEntry)
ChildEntries(sorted) ==
  [i \in 1..Len(sorted) |->
     [id       |-> sorted[i].child_id,
      name     |-> sorted[i].child_name,
      type     |-> sorted[i].child_type,
      key      |-> Key(sorted[i].child_type, sorted[i].child_id),
      children |-> <<>>]]

\* ------------------------------------------------------- steps and state
\* last: op, the step; id and type, the payload of the call; path, the
\* locator's result; stale, whether the target of the fetch was an entry of a
\* forest that was discarded while the fetch was pending; owner, the caller
\* of the fetch; data, the response assigned to the entry found; deep, whether
\* the step discarded children of an entry that is still there after the
\* step; reported, whether the step handed an error to dispatchCheckApiError;
\* again, whether the step repeated the step before it on the same input;
\* escaped, whether an exception left the action of the step to its caller;
\* result, the numbers returned by a step that calls the comparator
NoStep ==
  [op |-> "none", id |-> NullId, type |-> "", path |-> <<>>,
   stale |-> FALSE, owner |-> 0, data |-> <<>>, deep |-> FALSE, reported |-> FALSE,
   again |-> FALSE, escaped |-> FALSE, result |-> <<>>]
Step(op, id, type) == [NoStep EXCEPT !.op = op, !.id = id, !.type = type]

\* some entry of `entries` has children
Expanded(entries) == \E i \in 1..Len(entries) : entries[i].children # <<>>

Idle == [pc |-> "idle", items |-> <<>>, idx |-> 0]

\* A reference held by the component is the entry object it was given: path,
\* where the object is in the forest; live, whether the object is still part
\* of the forest.  References to objects that left the forest are not told
\* apart.
Ref(model, p) == [path |-> p, live |-> TRUE]
Dangling      == [path |-> <<>>, live |-> FALSE]

\* the data of the component as declared: selected = null, open = [],
\* active = [], no onOpen running
NoView ==
  [selected |-> <<>>, open |-> <<>>, active |-> <<>>,
   opening |-> [pc |-> "idle", kind |-> "", items |-> <<>>, idx |-> 0]]

\* the places in the forest of the objects the component refers to
HeldPaths(v) ==
  {r.path : r \in {s \in {v.selected[k] : k \in 1..Len(v.selected)}
                           \cup {v.open[k] : k \in 1..Len(v.open)}
                           \cup {v.active[k] : k \in 1..Len(v.active)} : s.live}}

\* the references of the component after the objects at the places `gone`
\* have left the forest
Dropping(v, gone) ==
  LET drop(refs) == [k \in 1..Len(refs) |->
                       IF refs[k].live /\ refs[k].path \notin gone
                       THEN refs[k] ELSE Dangling]
  IN  [v EXCEPT !.selected = drop(@), !.open = drop(@), !.active = drop(@)]

\* initApplicationModel builds new objects for every root
DiscardAll(v) == Dropping(v, HeldPaths(v))

\* `applicationModelEntry.children = children` puts new objects below the
\* entry at found[1]
DetachBelow(v, found) ==
  Dropping(v, {p \in HeldPaths(v) :
                 /\ found # <<>>
                 /\ Len(p) > Len(found[1])
                 /\ SubSeq(p, 1, Len(found[1])) = found[1]})

\* defaultState of the admin module
Init ==
  /\ applicationModel = <<>>
  /\ networks = <<>>
  /\ fetches = <<>>
  /\ loader = Idle
  /\ engine \in Engines
  /\ view = NoView
  /\ last = NoStep

\* ---------------------------------- actionUpdateApplicationModelChildren
\* variant: the fetch is issued whatever the id
IssueFetch_Unguarded(fs, payload, owner) ==
  Append(fs, [id |-> payload.id, type |-> payload.type,
              owner |-> owner, stale |-> FALSE])

\* up to its await: `if (payload.id)` decides whether the fetch is issued
IssueFetch(fs, payload, owner) ==
  IF Truthy(payload.id)
  THEN Append(fs, [id |-> payload.id, type |-> payload.type,
                   owner |-> owner, stale |-> FALSE])
  ELSE fs

\* variant: the entry is located by the payload's id alone
ApplyChildren_ById(model, id, type, data, eng) ==
  LET byId == {t \in Types : searchApplicationModel(model, id, t) # <<>>}
  IN  IF byId # {}
      THEN AssignChildren(model,
                          searchApplicationModel(model, id, CHOOSE t \in byId : TRUE)[1],
                          ChildEntries(SortChildren(data, eng)))
      ELSE model

\* after its await, on a response: locate, sort, build, assign, commit
ApplyChildren(model, id, type, data, eng) ==
  LET applicationModelEntry == searchApplicationModel(model, id, type)
  IN  IF applicationModelEntry # <<>>
      THEN AssignChildren(model, applicationModelEntry[1],
                          ChildEntries(SortChildren(data, eng)))
      ELSE model

\* dispatchCheckApiError(context, error): the error reaches the notification
\* surface; the store of the tree is not touched
dispatchCheckApiError(step) == [step EXCEPT !.reported = TRUE]

RemoveAt(seq, i) == SubSeq(seq, 1, i - 1) \o SubSeq(seq, i + 1, Len(seq))

\* ------------------------------------------------------ actionGetNetworks
\* index of the first item from `from` on whose call issues a fetch; the calls
\* before it return at `if (payload.id)` and the loop goes on
RECURSIVE NextFetching(_, _)
NextFetching(items, from) ==
  IF from > Len(items) \/ Truthy(items[from].id) THEN from
  ELSE NextFetching(items, from + 1)

\* `for (network of networks) await actionUpdate...(context, network)` from
\* index `from` on, run until the next await of a fetch or the end of the loop
LoopLoader(items, from) ==
  LET n == NextFetching(items, from)
  IN  IF n > Len(items) THEN Idle
      ELSE [pc |-> "children", items |-> items, idx |-> n]

\* variant: the calls are not awaited, every root is fetched at once
LoopFetches_FanOut(fs, items, from) ==
  IF from > 1 THEN fs
  ELSE fs \o [k \in 1..Len(items) |->
                [id |-> items[k].id, type |-> items[k].type,
                 owner |-> 1, stale |-> FALSE]]

LoopFetches(fs, items, from) ==
  LET n == NextFetching(items, from)
  IN  IF n > Len(items) THEN fs ELSE IssueFetch(fs, items[n], 1)

\* a caller dispatches actionGetNetworks: api.getNetworks is requested
GetNetworks ==
  /\ loader.pc = "idle"
  /\ loader' = [pc |-> "list", items |-> <<>>, idx |-> 0]
  /\ last' = Step("GetNetworks", NullId, "")
  /\ UNCHANGED <<applicationModel, networks, fetches, engine, view>>

\* variant: the list is stored and the forest is not rebuilt (the action as
\* it was before it called initApplicationModel)
GetNetworksOk_ListOnly(records) ==
  /\ loader.pc = "list"
  /\ networks' = records
  /\ loader' = Idle
  /\ last' = Step("Initialize", NullId, "")
  /\ UNCHANGED <<applicationModel, fetches, engine, view>>

\* the list arrives: setNetworks, initApplicationModel, then the loop over
\* the roots read back from the store, up to the first awaited fetch
GetNetworksOk(records) ==
  /\ loader.pc = "list"
  /\ networks' = records
  /\ applicationModel' = initApplicationModel(records)
  /\ LET items == [i \in 1..Len(records) |->
                     [id |-> applicationModel'[i].id, type |-> applicationModel'[i].type]]
         old   == [i \in 1..Len(fetches) |->
                     [fetches[i] EXCEPT !.stale =
                        @ \/ Matches(applicationModel, fetches[i].id, fetches[i].type) # {}]]
     IN  /\ loader' = LoopLoader(items, 1)
         /\ fetches' = LoopFetches(old, items, 1)
  /\ last' = [Step("Initialize", NullId, "") EXCEPT
                 !.deep = \E i \in 1..Len(applicationModel), j \in 1..Len(records) :
                             /\ applicationModel[i].children # <<>>
                             /\ applicationModel[i].id = records[j].id]
  /\ view' = DiscardAll(view)
  /\ UNCHANGED engine

\* variant: a failed list fetch is committed as an empty list
GetNetworksFail_Clear ==
  /\ loader.pc = "list"
  /\ loader' = Idle
  /\ networks' = <<>>
  /\ applicationModel' = <<>>
  /\ last' = dispatchCheckApiError(Step("GetNetworksFail", NullId, ""))
  /\ UNCHANGED <<fetches, engine, view>>

\* api.getNetworks rejects: the catch block reports the error
GetNetworksFail ==
  /\ loader.pc = "list"
  /\ loader' = Idle
  /\ last' = dispatchCheckApiError(Step("GetNetworksFail", NullId, ""))
  /\ UNCHANGED <<applicationModel, networks, fetches, engine, view>>

\* ------------------------------ dispatchUpdateApplicationModelChildren
\* a caller outside the store (the tree view) dispatches the action
RefreshChildren(payload) ==
  /\ Cardinality({i \in 1..Len(fetches) : fetches[i].owner = 0}) < MaxFetches
  /\ fetches' = IssueFetch(fetches, payload, 0)
  /\ last' = Step("RefreshChildren", payload.id, payload.type)
  /\ UNCHANGED <<applicationModel, networks, loader, engine, view>>

\* ----------------------------------------------------------------- onOpen
\* the two ConfigureApplication components
ViewKinds == {"admin", "config"}

\* whether onOpen of the component dispatches the action for a child:
\* views/admin/config tests `child.type == 'node' || child.type == 'network'`,
\* views/admin has no test
Dispatches(kind, child) ==
  kind = "admin" \/ child.type = "node" \/ child.type = "network"

\* index of the first child from `from` on for which a fetch is issued
RECURSIVE NextOpening(_, _, _)
NextOpening(kind, items, from) ==
  IF from > Len(items) \/ (Dispatches(kind, items[from]) /\ Truthy(items[from].id))
  THEN from
  ELSE NextOpening(kind, items, from + 1)

\* `for (child of openedItem.children) await dispatch...(child)` from index
\* `from` on, run until the next await of a fetch or the end of the loop
LoopOpening(kind, items, from) ==
  LET n == NextOpening(kind, items, from)
  IN  IF n > Len(items) THEN NoView.opening
      ELSE [pc |-> "children", kind |-> kind, items |-> items, idx |-> n]

OpeningFetches(fs, kind, items, from) ==
  LET n == NextOpening(kind, items, from)
  IN  IF n > Len(items) THEN fs ELSE IssueFetch(fs, items[n], 2)

\* what the caller of fetch i does when the action has completed; v is the
\* component after the step of the action
AfterFetch(i, rest, v) ==
  CASE fetches[i].owner = 1 ->
         /\ loader' = LoopLoader(loader.items, loader.idx + 1)
         /\ fetches' = LoopFetches(rest, loader.items, loader.idx + 1)
         /\ view' = v
    [] fetches[i].owner = 2 ->
         /\ loader' = loader
         /\ fetches' = OpeningFetches(rest, v.opening.kind, v.opening.items,
                                      v.opening.idx + 1)
         /\ view' = [v EXCEPT !.opening =
                       LoopOpening(@.kind, @.items, @.idx + 1)]
    [] OTHER ->
         /\ loader' = loader
         /\ fetches' = rest
         /\ view' = v

\* variant: the entry located is assigned to without the `if`, so that a
\* target that is not found raises, and the catch block reports it
FetchOk_Unchecked(i, data) ==
  /\ i \in 1..Len(fetches)
  /\ LET f     == fetches[i]
         found == searchApplicationModel(applicationModel, f.id, f.type)
     IN  /\ applicationModel' = ApplyChildren(applicationModel, f.id, f.type, data, engine)
         /\ Size(applicationModel') <= MaxEntries
         /\ last' = [Step("FetchOk", f.id, f.type) EXCEPT
                        !.path = found, !.stale = f.stale, !.owner = f.owner,
                        !.data = IF found # <<>> THEN data ELSE <<>>,
                        !.deep = found # <<>> /\
                                 Expanded(EntryAt(applicationModel, found[1]).children),
                        !.reported = (found = <<>>)]
  /\ AfterFetch(i, RemoveAt(fetches, i),
                DetachBelow(view, searchApplicationModel(applicationModel,
                                                          fetches[i].id, fetches[i].type)))
  /\ UNCHANGED <<networks, engine>>

\* variant: the action yields between locating the target and assigning to
\* it, and an Initialize on the stored list runs in between
FetchOk_Interleaved(i, data) ==
  /\ i \in 1..Len(fetches)
  /\ LET f     == fetches[i]
         found == searchApplicationModel(applicationModel, f.id, f.type)
     IN  /\ applicationModel' =
              IF found # <<>> /\ Len(found[1]) = 1
              THEN AssignChildren(initApplicationModel(networks), found[1],
                                  ChildEntries(SortChildren(data, engine)))
              ELSE ApplyChildren(applicationModel, f.id, f.type, data, engine)
         /\ Size(applicationModel') <= MaxEntries
         /\ last' = [Step("FetchOk", f.id, f.type) EXCEPT
                        !.path = found, !.stale = f.stale, !.owner = f.owner,
                        !.data = IF found # <<>> THEN data ELSE <<>>,
                        !.deep = found # <<>> /\
                                 Expanded(EntryAt(applicationModel, found[1]).children)]
  /\ AfterFetch(i, RemoveAt(fetches, i),
                DetachBelow(view, searchApplicationModel(applicationModel,
                                                          fetches[i].id, fetches[i].type)))
  /\ UNCHANGED <<networks, engine>>

\* variant: a response is dropped when the target already has children
FetchOk_KeepFirst(i, data) ==
  /\ i \in 1..Len(fetches)
  /\ LET f     == fetches[i]
         found == searchApplicationModel(applicationModel, f.id, f.type)
     IN  /\ applicationModel' =
              IF found # <<>> /\ EntryAt(applicationModel, found[1]).children # <<>>
              THEN applicationModel
              ELSE ApplyChildren(applicationModel, f.id, f.type, data, engine)
         /\ Size(applicationModel') <= MaxEntries
         /\ last' = [Step("FetchOk", f.id, f.type) EXCEPT
                        !.path = found, !.stale = f.stale, !.owner = f.owner,
                        !.data = IF found # <<>> THEN data ELSE <<>>,
                        !.deep = found # <<>> /\
                                 Expanded(EntryAt(applicationModel, found[1]).children)]
  /\ AfterFetch(i, RemoveAt(fetches, i),
                DetachBelow(view, searchApplicationModel(applicationModel,
                                                          fetches[i].id, fetches[i].type)))
  /\ UNCHANGED <<networks, engine>>

\* the response of fetch i arrives
FetchOk(i, data) ==
  /\ i \in 1..Len(fetches)
  /\ LET f     == fetches[i]
         found == searchApplicationModel(applicationModel, f.id, f.type)
     IN  /\ applicationModel' = ApplyChildren(applicationModel, f.id, f.type, data, engine)
         /\ Size(applicationModel') <= MaxEntries
         /\ last' = [Step("FetchOk", f.id, f.type) EXCEPT
                        !.path = found, !.stale = f.stale, !.owner = f.owner,
                        !.data = IF found # <<>> THEN data ELSE <<>>,
                        !.deep = found # <<>> /\
                                 Expanded(EntryAt(applicationModel, found[1]).children)]
  /\ AfterFetch(i, RemoveAt(fetches, i),
                DetachBelow(view, searchApplicationModel(applicationModel,
                                                          fetches[i].id, fetches[i].type)))
  /\ UNCHANGED <<networks, engine>>

\* variant: a failed fetch is committed as an empty child list
FetchFail_Commit(i) ==
  /\ i \in 1..Len(fetches)
  /\ applicationModel' = ApplyChildren(applicationModel, fetches[i].id, fetches[i].type,
                                       <<>>, engine)
  /\ last' = dispatchCheckApiError(
                [Step("FetchFail", fetches[i].id, fetches[i].type) EXCEPT
                   !.stale = fetches[i].stale, !.owner = fetches[i].owner])
  /\ AfterFetch(i, RemoveAt(fetches, i),
                DetachBelow(view, searchApplicationModel(applicationModel,
                                                          fetches[i].id, fetches[i].type)))
  /\ UNCHANGED <<networks, engine>>

\* fetch i rejects: the catch block reports the error
\* variant: the error of a fetch of the load leaves the action and ends the
\* loop of the load
FetchFail_StopLoad(i) ==
  /\ i \in 1..Len(fetches)
  /\ last' = dispatchCheckApiError(
                [Step("FetchFail", fetches[i].id, fetches[i].type) EXCEPT
                   !.stale = fetches[i].stale, !.owner = fetches[i].owner])
  /\ fetches' = RemoveAt(fetches, i)
  /\ loader' = IF fetches[i].owner = 1 THEN Idle ELSE loader
  /\ UNCHANGED <<applicationModel, networks, engine, view>>

\* variant: the catch block dispatches the action again for the same payload
FetchFail_Retry(i) ==
  /\ i \in 1..Len(fetches)
  /\ last' = dispatchCheckApiError(
                [Step("FetchFail", fetches[i].id, fetches[i].type) EXCEPT
                   !.stale = fetches[i].stale, !.owner = fetches[i].owner])
  /\ fetches' = Append(RemoveAt(fetches, i), fetches[i])
  /\ UNCHANGED <<applicationModel, networks, loader, engine, view>>

FetchFail(i) ==
  /\ i \in 1..Len(fetches)
  /\ last' = dispatchCheckApiError(
                [Step("FetchFail", fetches[i].id, fetches[i].type) EXCEPT
                   !.stale = fetches[i].stale, !.owner = fetches[i].owner])
  /\ AfterFetch(i, RemoveAt(fetches, i), view)
  /\ UNCHANGED <<applicationModel, networks, engine>>

\* variant: the code after the await is outside the try block, so that the
\* exception of `response.data.sort` leaves the action; a load that awaits the
\* action ends in its own catch block
FetchMalformed_Uncaught(i) ==
  /\ i \in 1..Len(fetches)
  /\ LET f     == fetches[i]
         found == searchApplicationModel(applicationModel, f.id, f.type)
         step  == [Step("FetchMalformed", f.id, f.type) EXCEPT
                     !.path = found, !.stale = f.stale, !.owner = f.owner,
                     !.escaped = (found # <<>>)]
     IN  IF found # <<>> /\ f.owner = 1
         THEN /\ last' = dispatchCheckApiError(step)
              /\ loader' = Idle
              /\ fetches' = RemoveAt(fetches, i)
              /\ view' = view
         ELSE /\ last' = step
              /\ AfterFetch(i, RemoveAt(fetches, i), view)
  /\ UNCHANGED <<applicationModel, networks, engine>>

\* the response of fetch i arrives and its data is not an array: when the
\* target is found, `response.data.sort` throws inside the try block and the
\* catch block reports the error; when it is not found, the data is not
\* looked at and the forest read is committed
FetchMalformed(i) ==
  /\ i \in 1..Len(fetches)
  /\ LET f     == fetches[i]
         found == searchApplicationModel(applicationModel, f.id, f.type)
         step  == [Step("FetchMalformed", f.id, f.type) EXCEPT
                     !.path = found, !.stale = f.stale, !.owner = f.owner]
     IN  last' = IF found # <<>> THEN dispatchCheckApiError(step) ELSE step
  /\ AfterFetch(i, RemoveAt(fetches, i), view)
  /\ UNCHANGED <<applicationModel, networks, engine>>

Next ==
  \/ GetNetworks
  \/ \E records \in NetworkLists : GetNetworksOk(records)
  \/ GetNetworksFail
  \/ \E payload \in Payloads : RefreshChildren(payload)
  \/ \E i \in 1..(MaxFetches + 1), data \in ChildLists : FetchOk(i, data)
  \/ \E i \in 1..(MaxFetches + 1) : FetchFail(i)

Spec == Init /\ [][Next]_vars

\* ------------------------------------------------ the tree view component
\* selectItem(item), from a button of the row of an entry on display
selectItem(p) ==
  /\ p \in Paths(applicationModel)
  /\ view' = [view EXCEPT !.selected = << Ref(applicationModel, p) >>]
  /\ last' = Step("selectItem", NullId, "")
  /\ UNCHANGED <<applicationModel, networks, fetches, loader, engine>>

\* :active.sync with return-object: the user activates an entry on display
Activate(p) ==
  /\ p \in Paths(applicationModel)
  /\ view' = [view EXCEPT !.active = << Ref(applicationModel, p) >>]
  /\ last' = Step("Activate", NullId, "")
  /\ UNCHANGED <<applicationModel, networks, fetches, loader, engine>>

\* :open.sync with return-object: the user opens an entry on display, and the
\* watcher onOpen of the component `kind` runs up to its first awaited fetch
Open(kind, p) ==
  /\ p \in Paths(applicationModel)
  /\ Len(view.open) < MaxOpen
  /\ view.opening.pc = "idle"
  /\ \A k \in 1..Len(view.open) : ~(view.open[k].live /\ view.open[k].path = p)
  /\ LET openedItem == EntryAt(applicationModel, p)
         items == [k \in 1..Len(openedItem.children) |->
                     [id |-> openedItem.children[k].id,
                      type |-> openedItem.children[k].type]]
     IN  /\ view' = [view EXCEPT !.open = Append(@, Ref(applicationModel, p)),
                                 !.opening = LoopOpening(kind, items, 1)]
         /\ fetches' = OpeningFetches(fetches, kind, items, 1)
         /\ last' = Step("onOpen", NullId, "")
  /\ UNCHANGED <<applicationModel, networks, loader, engine>>

\* the watcher of $route.fullPath
onFormReset ==
  /\ view' = [view EXCEPT !.open = <<>>]
  /\ last' = Step("onFormReset", NullId, "")
  /\ UNCHANGED <<applicationModel, networks, fetches, loader, engine>>

\* the component is mounted on the default state of the store
InitView ==
  /\ applicationModel = <<>>
  /\ networks = <<>>
  /\ fetches = <<>>
  /\ loader = Idle
  /\ engine = "timsort"
  /\ view = NoView
  /\ last = NoStep

NextView ==
  \/ GetNetworks
  \/ \E records \in NetworkLists : GetNetworksOk(records)
  \/ GetNetworksFail
  \/ \E i \in 1..(MaxFetches + 1), data \in SeqsUpTo(ChildRecords, MaxShown) :
        FetchOk(i, data)
  \/ \E i \in 1..(MaxFetches + 1) : FetchFail(i)
  \/ \E p \in Paths(applicationModel) : selectItem(p)
  \/ \E p \in Paths(applicationModel) : Activate(p)
  \/ \E kind \in ViewKinds, p \in Paths(applicationModel) : Open(kind, p)
  \/ onFormReset

SpecView == InitView /\ [][NextView]_vars

\* ------------------------------------------------- the load on its own
\* network lists whose ids all pass `if (payload.id)`
LoadIds   == {1, 2}
LoadLists == SeqsUpTo([id : LoadIds, name : NetworkNames], MaxNetworks)

NextLoad ==
  \/ GetNetworks
  \/ \E records \in LoadLists : GetNetworksOk(records)
  \/ GetNetworksFail
  \/ \E i \in 1..(MaxFetches + 1), data \in ChildLists : FetchOk(i, data)
  \/ \E i \in 1..(MaxFetches + 1) : FetchFail(i)

SpecLoad == Init /\ [][NextLoad]_vars

\* ------------------------------------- the load and refreshes by the view
\* targets of the view among the networks of the load
LoadPayloads == [id : LoadIds, type : {"network"}]

NextRefresh ==
  \/ NextLoad
  \/ \E payload \in LoadPayloads : RefreshChildren(payload)

\* defaultState of the admin module, under the sort of current engines
InitRefresh ==
  /\ applicationModel = <<>>
  /\ networks = <<>>
  /\ fetches = <<>>
  /\ loader = Idle
  /\ engine = "timsort"
  /\ view = NoView
  /\ last = NoStep

SpecRefresh == InitRefresh /\ [][NextRefresh]_vars

\* the same, with responses that are not arrays
NextShape ==
  \/ NextRefresh
  \/ \E i \in 1..(MaxFetches + 1) : FetchMalformed(i)

SpecShape == InitRefresh /\ [][NextShape]_vars

\* ------------------------------------------------- the locator on its own
\* every forest of exactly n entries over LocateIds and LocateTypes
RECURSIVE ForestsOfSize(_)
RECURSIVE TreesOfSize(_)
TreesOfSize(n) ==
  {[id |-> id, name |-> "x", type |-> type, key |-> Key(type, id), children |-> c] :
     id \in LocateIds, type \in LocateTypes, c \in ForestsOfSize(n - 1)}

ForestsOfSize(n) ==
  IF n = 0 THEN {<<>>}
  ELSE UNION {{<<t>> \o rest : t \in TreesOfSize(k), rest \in ForestsOfSize(n - k)} :
                k \in 1..n}

InitLocate ==
  /\ applicationModel \in UNION {ForestsOfSize(n) : n \in 0..MaxLocate}
  /\ networks = <<>>
  /\ fetches = <<>>
  /\ loader = Idle
  /\ engine = "insertion"
  /\ view = NoView
  /\ last = NoStep

\* variant: the search detaches the children of the entry it returns
Locate_Detach(id, type) ==
  LET result == searchApplicationModel(applicationModel, id, type)
  IN  /\ last' = [Step("Locate", id, type) EXCEPT !.path = result]
      /\ applicationModel' = IF result = <<>> THEN applicationModel
                             ELSE AssignChildren(applicationModel, result[1], <<>>)
      /\ UNCHANGED <<networks, fetches, loader, engine, view>>

\* a caller applies searchApplicationModel to the forest
Locate(id, type) ==
  /\ last' = [Step("Locate", id, type) EXCEPT
                 !.path = searchApplicationModel(applicationModel, id, type)]
  /\ UNCHANGED <<applicationModel, networks, fetches, loader, engine, view>>

NextLocate == \E id \in LocateIds, type \in LocateTypes : Locate(id, type)

SpecLocate == InitLocate /\ [][NextLocate]_vars

\* ------------------------------------------ initialization on its own
\* the forest before: any forest of at most MaxEntries entries
InitInitialize ==
  /\ applicationModel \in UNION {ForestsOfSize(n) : n \in 0..MaxEntries}
  /\ networks = <<>>
  /\ fetches = <<>>
  /\ loader = Idle
  /\ engine = "insertion"
  /\ view = NoView
  /\ last = NoStep

\* commitSetNetworks and commitInitApplicationModel on a network list
Initialize(records) ==
  /\ networks' = records
  /\ applicationModel' = initApplicationModel(records)
  /\ last' = [Step("Initialize", NullId, "") EXCEPT
                 !.again = (last.op = "Initialize" /\ networks = records),
                 !.deep  = Expanded(applicationModel)]
  /\ view' = DiscardAll(view)
  /\ UNCHANGED <<fetches, loader, engine>>

NextInitialize ==
  \/ \E records \in NetworkLists : Initialize(records)
  \/ \E id \in NetworkIds, type \in LocateTypes : Locate(id, type)

SpecInitialize == InitInitialize /\ [][NextInitialize]_vars

\* ------------------------------------- two fetches for the same target
\* the network both fetches are for
RaceNetwork == [id |-> 1, name |-> "a"]
RaceFetch(owner, stale) ==
  [id |-> RaceNetwork.id, type |-> "network", owner |-> owner, stale |-> stale]

\* a load of the one network awaits its fetch while a refresh dispatched by
\* the view is in flight for the same network: the refresh was dispatched
\* either after the list arrived or before it (on the forest of an earlier
\* load), and `fetches` is in the order of issue
InitRace ==
  /\ networks = <<RaceNetwork>>
  /\ applicationModel = initApplicationModel(networks)
  /\ loader = [pc |-> "children",
               items |-> <<[id |-> RaceNetwork.id, type |-> "network"]>>, idx |-> 1]
  /\ fetches \in {<<RaceFetch(1, FALSE), RaceFetch(0, FALSE)>>,
                   <<RaceFetch(0, TRUE), RaceFetch(1, FALSE)>>}
  /\ engine \in Engines
  /\ view = NoView
  /\ last = NoStep

\* the two responses arrive, in either order
NextRace == \E i \in 1..2, data \in ChildLists : FetchOk(i, data)

SpecRace == InitRace /\ [][NextRace]_vars

\* ------------------------------------- the load against a fixed backend
\* network ids the backend may list
BackendIds   == {0, 1, 2, 3}
BackendLists == SeqsUpTo([id : BackendIds, name : NetworkNames], MaxNetworks)

\* the child list GET /nodes/{id}/children answers with, by network id
BackendChildren(id) ==
  CASE id = 0 -> <<[child_id |-> 1, child_name |-> "c", child_type |-> "node"]>>
    [] id = 1 -> <<[child_id |-> 2, child_name |-> "c", child_type |-> "node"]>>
    [] OTHER  -> <<>>

\* the response of fetch i arrives with the list the backend holds
FetchBackend(i) ==
  /\ i \in 1..Len(fetches)
  /\ FetchOk(i, BackendChildren(fetches[i].id))

\* actionGetNetworks with a list fetch and child fetches that all succeed,
\* and no other action
NextBackend ==
  \/ GetNetworks
  \/ \E records \in BackendLists : GetNetworksOk(records)
  \/ \E i \in 1..(MaxFetches + 1) : FetchBackend(i)

SpecBackend == Init /\ [][NextBackend]_vars

\* --------------------------------- calls of actionGetNetworks that overlap
\* `loader` is the call dispatched last; a call dispatched before it and still
\* running is kept with the request it awaits: a record of `fetches` with
\* owner 3 that carries the roots of the call's loop and its index (type
\* "list" while the call awaits api.getNetworks)
MaxOverlap == 1

Older == {i \in 1..Len(fetches) : fetches[i].owner = 3}

\* the request awaited by an earlier call whose loop is at index `from`
OlderFetch(items, from) ==
  LET n == NextFetching(items, from)
  IN  IF n > Len(items) THEN <<>>
      ELSE <<[id |-> items[n].id, type |-> items[n].type, owner |-> 3,
              stale |-> FALSE, items |-> items, idx |-> n]>>

\* a caller dispatches actionGetNetworks while a call is running
GetNetworksOverlap ==
  /\ loader.pc # "idle"
  /\ Cardinality(Older) < MaxOverlap
  /\ fetches' =
       IF loader.pc = "list"
       THEN Append(fetches, [id |-> NullId, type |-> "list", owner |-> 3,
                             stale |-> FALSE, items |-> <<>>, idx |-> 0])
       ELSE [i \in 1..Len(fetches) |->
               IF fetches[i].owner = 1
               THEN [id |-> fetches[i].id, type |-> fetches[i].type, owner |-> 3,
                     stale |-> fetches[i].stale,
                     items |-> loader.items, idx |-> loader.idx]
               ELSE fetches[i]]
  /\ loader' = [pc |-> "list", items |-> <<>>, idx |-> 0]
  /\ last' = Step("GetNetworks", NullId, "")
  /\ UNCHANGED <<applicationModel, networks, engine, view>>

\* the list of an earlier call arrives
OlderListOk(i, records) ==
  /\ i \in Older
  /\ fetches[i].type = "list"
  /\ networks' = records
  /\ applicationModel' = initApplicationModel(records)
  /\ LET items == [k \in 1..Len(records) |->
                     [id |-> applicationModel'[k].id, type |-> applicationModel'[k].type]]
         rest  == RemoveAt(fetches, i)
         old   == [k \in 1..Len(rest) |->
                     [rest[k] EXCEPT !.stale =
                        @ \/ Matches(applicationModel, rest[k].id, rest[k].type) # {}]]
     IN  fetches' = old \o OlderFetch(items, 1)
  /\ last' = [Step("Initialize", NullId, "") EXCEPT
                 !.owner = 3,
                 !.deep = \E k \in 1..Len(applicationModel), j \in 1..Len(records) :
                             /\ applicationModel[k].children # <<>>
                             /\ applicationModel[k].id = records[j].id]
  /\ view' = DiscardAll(view)
  /\ UNCHANGED <<loader, engine>>

\* the children response of an earlier call arrives
OlderFetchOk(i, data) ==
  /\ i \in Older
  /\ fetches[i].type # "list"
  /\ LET f     == fetches[i]
         found == searchApplicationModel(applicationModel, f.id, f.type)
     IN  /\ applicationModel' = ApplyChildren(applicationModel, f.id, f.type, data, engine)
         /\ Size(applicationModel') <= MaxEntries
         /\ last' = [Step("FetchOk", f.id, f.type) EXCEPT
                        !.path = found, !.stale = f.stale, !.owner = f.owner,
                        !.data = IF found # <<>> THEN data ELSE <<>>,
                        !.deep = found # <<>> /\
                                 Expanded(EntryAt(applicationModel, found[1]).children)]
         /\ fetches' = RemoveAt(fetches, i) \o OlderFetch(f.items, f.idx + 1)
         /\ view' = DetachBelow(view, found)
  /\ UNCHANGED <<networks, loader, engine>>

\* a request of an earlier call fails: the list request ends the call, a
\* children request lets its loop go on
OlderFail(i) ==
  /\ i \in Older
  /\ last' = dispatchCheckApiError(
                [Step(IF fetches[i].type = "list" THEN "GetNetworksFail" ELSE "FetchFail",
                      fetches[i].id, fetches[i].type) EXCEPT
                   !.stale = fetches[i].stale, !.owner = fetches[i].owner])
  /\ fetches' = RemoveAt(fetches, i) \o
                  (IF fetches[i].type = "list" THEN <<>>
                   ELSE OlderFetch(fetches[i].items, fetches[i].idx + 1))
  /\ UNCHANGED <<applicationModel, networks, loader, engine, view>>

\* the responses of the call dispatched last
LatestFetchOk(i, data) ==
  /\ i \in 1..Len(fetches)
  /\ fetches[i].owner # 3
  /\ FetchOk(i, data)

LatestFetchFail(i) ==
  /\ i \in 1..Len(fetches)
  /\ fetches[i].owner # 3
  /\ FetchFail(i)

\* the lists and the children responses the overlapping calls receive
OverlapLists ==
  {<<[id |-> 1, name |-> "a"]>>,
   <<[id |-> 2, name |-> "a"]>>,
   <<[id |-> 1, name |-> "a"], [id |-> 2, name |-> "a"]>>}
OverlapChildLists ==
  {<<>>, <<[child_id |-> 1, child_name |-> "c", child_type |-> "node"]>>}

NextOverlap ==
  \/ GetNetworks
  \/ GetNetworksOverlap
  \/ \E records \in OverlapLists : GetNetworksOk(records)
  \/ GetNetworksFail
  \/ \E i \in 1..(MaxOverlap + 1), records \in OverlapLists : OlderListOk(i, records)
  \/ \E i \in 1..(MaxOverlap + 1), data \in OverlapChildLists : OlderFetchOk(i, data)
  \/ \E i \in 1..(MaxOverlap + 1) : OlderFail(i)
  \/ \E i \in 1..(MaxOverlap + 1), data \in OverlapChildLists : LatestFetchOk(i, data)
  \/ \E i \in 1..(MaxOverlap + 1) : LatestFetchFail(i)

SpecOverlap == InitRefresh /\ [][NextOverlap]_vars

\* ------------------------------------------- the comparator on its own
\* child records of three types and three ids
CompareIds     == {1, 2, 3}
CompareTypes   == {"interface", "node", "user_group"}
CompareRecords == [child_id : CompareIds, child_name : ChildNames,
                   child_type : CompareTypes]

\* a pair of records to compare
InitCompare ==
  /\ applicationModel = <<>>
  /\ networks = <<>>
  /\ fetches = <<>>
  /\ loader = Idle
  /\ engine = "timsort"
  /\ view = NoView
  /\ last \in {[NoStep EXCEPT !.data = <<a, b>>] : a, b \in CompareRecords}

\* the sort calls the comparator on the pair, in both orders
Compare ==
  /\ last.op = "none"
  /\ last' = [last EXCEPT !.op = "Compare",
                          !.result = <<CompareChildren(last.data[1], last.data[2]),
                                       CompareChildren(last.data[2], last.data[1])>>]
  /\ UNCHANGED <<applicationModel, networks, fetches, loader, engine, view>>

NextCompare == Compare

SpecCompare == InitCompare /\ [][NextCompare]_vars

\* ============================================================ properties
\* decimal numerals of the ids in use
Numeral(n) ==
  CASE n = 0 -> "0" [] n = 1 -> "1" [] n = 2 -> "2" [] n = 3 -> "3" [] n = 4 -> "4"
    [] n = 5 -> "5" [] n = 6 -> "6" [] n = 7 -> "7" [] n = 8 -> "8" [] n = 9 -> "9"

\* the children of the entry the last step located
LocatedChildren == EntryAt(applicationModel, last.path[1]).children

\* type descending, and id ascending within a type
TypeDescIdAsc(entries) ==
  \A i, j \in 1..Len(entries) :
    i < j =>
      \/ TypeRank(entries[i].type) > TypeRank(entries[j].type)
      \/ /\ entries[i].type = entries[j].type
         /\ entries[i].id <= entries[j].id

\* ---------------------------------------------------------------- C1
\* C1: when exactly one entry of the forest, at any depth, has the id and the
\* type asked for, searchApplicationModel returns that entry; when no entry has
\* both, it returns null.
C1_LocateReturnsTheMatch ==
  last.op = "Locate" =>
    LET m == Matches(applicationModel, last.id, last.type)
    IN  /\ Cardinality(m) = 1 => last.path = << CHOOSE p \in m : TRUE >>
        /\ m = {} => last.path = <<>>

\* the entry returned is below a root and an earlier entry has its id with
\* another type
C1_Witness ==
  /\ last.op = "Locate"
  /\ Cardinality(Matches(applicationModel, last.id, last.type)) = 1
  /\ last.path # <<>>
  /\ Len(last.path[1]) >= 2
  /\ applicationModel[last.path[1][1]].id = last.id
  /\ applicationModel[last.path[1][1]].type # last.type

\* ---------------------------------------------------------------- C2
\* C2: after a RefreshChildren whose target is found, the children of the
\* target are ordered by type descending and, within a type, by id ascending,
\* whatever the order of the response.
C2_ChildrenTypeDescIdAsc ==
  (last.op = "FetchOk" /\ last.path # <<>>) => TypeDescIdAsc(LocatedChildren)

\* ---------------------------------------------------------------- C3
\* C3 (as stated): when a fetch for an entry of a forest that was discarded
\* while the fetch was pending resolves, the forest is left unchanged.
C3_StaleFetchLeavesForest ==
  [][(last'.op = "FetchOk" /\ last'.stale) => applicationModel' = applicationModel]_vars

\* C3 (amended): rebuilding the forest aborts no pending fetch; when a fetch
\* for an entry of a forest discarded in the meantime resolves and the current
\* forest holds no entry with the target's id and type, the forest is
\* unchanged and no error is reported; when it holds one, that entry receives
\* the fetched children.
C3_StaleFetchDiscardedWhenAbsent ==
  [][/\ (last'.op = "Initialize") =>
          /\ Len(fetches') >= Len(fetches)
          /\ \A i \in 1..Len(fetches) :
               /\ fetches'[i].id = fetches[i].id
               /\ fetches'[i].type = fetches[i].type
               /\ fetches'[i].owner = fetches[i].owner
     /\ (last'.op = "FetchOk" /\ last'.stale) =>
          IF Matches(applicationModel, last'.id, last'.type) = {}
          THEN applicationModel' = applicationModel /\ ~last'.reported
          ELSE /\ last'.path # <<>>
               /\ last'.path[1] \in Matches(applicationModel, last'.id, last'.type)
               /\ Len(EntryAt(applicationModel', last'.path[1]).children) = Len(last'.data)
    ]_vars

\* a fetch outlived the forest its target was in and found no target in the
\* new one
C3_Witness ==
  /\ last.op = "FetchOk"
  /\ last.stale
  /\ last.path = <<>>
  /\ applicationModel # <<>>

\* ---------------------------------------------------------------- C4
\* C4: Initialize replaces the forest by one root per record of the list, in
\* the order of the list, with the id and name of the record, type network,
\* key network-{id} and no children.
C4_InitializeBuildsRoots ==
  last.op = "Initialize" =>
    applicationModel =
      [i \in 1..Len(networks) |->
         [id       |-> networks[i].id,
          name     |-> networks[i].name,
          type     |-> "network",
          key      |-> "network-" \o Numeral(networks[i].id),
          children |-> <<>>]]

\* a list of two records with different ids has been installed
C4_Witness ==
  /\ last.op = "Initialize"
  /\ Len(applicationModel) = 2
  /\ applicationModel[1].id # applicationModel[2].id

\* ---------------------------------------------------------------- C5
\* C5: RefreshChildren on a target whose id is null issues no fetch and leaves
\* the forest unchanged.
C5_NullIdIsNoOp ==
  [][(last'.op = "RefreshChildren" /\ last'.id = NullId) =>
       /\ fetches' = fetches
       /\ applicationModel' = applicationModel
       /\ networks' = networks
    ]_vars

\* the action ran on a null id while the forest was populated
C5_Witness ==
  /\ last.op = "RefreshChildren"
  /\ last.id = NullId
  /\ applicationModel # <<>>

\* ---------------------------------------------------------------- C6
\* C6: RefreshChildren on a target whose id is not null, 0 included, issues a
\* children fetch for that id.
C6_NonNullIdFetches ==
  [][(last'.op = "RefreshChildren" /\ last'.id # NullId) =>
       /\ Len(fetches') = Len(fetches) + 1
       /\ fetches'[Len(fetches')].id = last'.id
    ]_vars

\* ---------------------------------------------------------------- C7
\* C7: when the children fetch fails, the error is handed to the
\* error-reporting action, the action completes (its caller goes on), and the
\* forest is as it was.
C7_FailedFetchReportedOnly ==
  [][(last'.op = "FetchFail") =>
       /\ last'.reported
       /\ applicationModel' = applicationModel
       /\ networks' = networks
       /\ last'.owner = 0 => (Len(fetches') = Len(fetches) - 1 /\ loader' = loader)
       /\ last'.owner = 1 =>
            \/ loader'.pc = "idle"
            \/ loader'.pc = "children" /\ loader'.idx > loader.idx
    ]_vars

\* a fetch failed while its target had children in the forest
C7_Witness ==
  /\ last.op = "FetchFail"
  /\ last.reported
  /\ \E p \in Matches(applicationModel, last.id, last.type) :
       EntryAt(applicationModel, p).children # <<>>

\* ---------------------------------------------------------------- C8
\* C8: when the response arrives and no entry of the forest has the target's
\* id and type, the forest is unchanged and no error is reported.
C8_AbsentTargetDiscards ==
  [][(last'.op = "FetchOk" /\ Matches(applicationModel, last'.id, last'.type) = {}) =>
       /\ applicationModel' = applicationModel
       /\ ~last'.reported
       /\ last'.path = <<>>
    ]_vars

\* a response arrived for a target that the forest, never rebuilt since the
\* request, does not hold
C8_Witness ==
  /\ last.op = "FetchOk"
  /\ ~last.stale
  /\ last.path = <<>>
  /\ Matches(applicationModel, last.id, last.type) = {}
  /\ applicationModel # <<>>

\* ---------------------------------------------------------------- C9
\* C9: after a RefreshChildren whose target is found, the children of the
\* target are one entry per record of the response (the same records, in some
\* order), each with the id, name and type of its record, key {type}-{id} and
\* no children; nothing of the former children and their descendants remains.
C9_ChildrenAreTheResponse ==
  (last.op = "FetchOk" /\ last.path # <<>>) =>
    /\ Len(LocatedChildren) = Len(last.data)
    /\ \E f \in Permutations(1..Len(last.data)) :
         \A i \in 1..Len(last.data) :
           LocatedChildren[i] =
             [id       |-> last.data[f[i]].child_id,
              name     |-> last.data[f[i]].child_name,
              type     |-> last.data[f[i]].child_type,
              key      |-> last.data[f[i]].child_type \o "-"
                             \o Numeral(last.data[f[i]].child_id),
              children |-> <<>>]

\* a response of two records replaced children that had children themselves
C9_Witness ==
  /\ last.op = "FetchOk"
  /\ last.path # <<>>
  /\ last.deep
  /\ Len(last.data) = 2

\* ---------------------------------------------------------------- C10
\* C10: after Initialize no root has children, whatever the forest was before,
\* also for a network that was a root with children before.
C10_InitializeLeavesRootsOnly ==
  last.op = "Initialize" =>
    \A i \in 1..Len(applicationModel) : applicationModel[i].children = <<>>

\* a network that had children before is a root again
C10_Witness ==
  /\ last.op = "Initialize"
  /\ last.deep
  /\ applicationModel # <<>>

\* ---------------------------------------------------------------- C11
\* C11: Initialize is idempotent: applied a second time to the same network
\* list, it leaves the forest that the first application produced, whatever
\* the forest was before the first.
C11_InitializeIdempotent ==
  [][(last'.op = "Initialize" /\ last'.again) => applicationModel' = applicationModel]_vars

\* the same list of two networks has been applied twice in a row
C11_Witness ==
  /\ last.op = "Initialize"
  /\ last.again
  /\ Len(applicationModel) = 2

C13_LocateLeavesForest ==
  [][(last'.op = "Locate") => applicationModel' = applicationModel]_vars

\* the locator descended two levels to the entry it returned
C13_Witness ==
  /\ last.op = "Locate"
  /\ last.path # <<>>
  /\ Len(last.path[1]) = 3

\* ---------------------------------------------------------------- C14
\* C14: in every reachable state, no two entries of the children of one
\* parent have the same type and id.
C14_NoDuplicateChildren ==
  \A p \in Paths(applicationModel) :
    LET c == EntryAt(applicationModel, p).children
    IN  \A i, j \in 1..Len(c) :
          (c[i].type = c[j].type /\ c[i].id = c[j].id) => i = j

C17_KeyIsTypeDashId ==
  \A p \in Paths(applicationModel) :
    LET e == EntryAt(applicationModel, p)
    IN  e.key = e.type \o "-" \o Numeral(e.id)

\* the forest holds a root and two children of different types
C17_Witness ==
  /\ Len(applicationModel) = 1
  /\ Len(applicationModel[1].children) = 2
  /\ applicationModel[1].children[1].type # applicationModel[1].children[2].type

\* ---------------------------------------------------------------- C20
\* C20: when the fetch of the network list fails, the error is reported, no
\* children fetch is issued, and the network list and the forest are as they
\* were before the call.
C20_FailedListReportedOnly ==
  [][(last'.op = "GetNetworksFail") =>
       /\ last'.reported
       /\ fetches' = fetches
       /\ networks' = networks
       /\ applicationModel' = applicationModel
       /\ loader'.pc = "idle"
    ]_vars

\* the list fetch failed while the forest had a root with children
C20_Witness ==
  /\ last.op = "GetNetworksFail"
  /\ last.reported
  /\ networks # <<>>
  /\ Expanded(applicationModel)

\* ---------------------------------------------------------------- C18
\* the children fetches of the load that are in flight
LoadFetches == {k \in 1..Len(fetches) : fetches[k].owner = 1}

\* C18 (as stated): the load issues the children fetch of every top-level
\* network without waiting for the one before it, so that after Initialize
\* the fetches of all roots are in flight.
C18_LoadFansOut ==
  last.op = "Initialize" =>
    Cardinality(LoadFetches) =
      Cardinality({i \in 1..Len(applicationModel) : Truthy(applicationModel[i].id)})

\* C18 (amended): the load awaits each children fetch before it issues the
\* next: at most one of its fetches is in flight, it is the fetch of the root
\* the loop is at, and the loop goes through the roots in list order.
C18_LoadFetchesOneAtATime ==
  /\ Cardinality(LoadFetches) <= 1
  /\ loader.pc = "children" =>
       /\ Cardinality(LoadFetches) = 1
       /\ loader.idx \in 1..Len(loader.items)
       /\ \A k \in LoadFetches :
            /\ fetches[k].id = loader.items[loader.idx].id
            /\ fetches[k].type = "network"
  /\ loader.pc # "children" => LoadFetches = {}

\* the fetch of the second of two networks is in flight, the first is done
C18_Witness ==
  /\ loader.pc = "children"
  /\ loader.idx = 2
  /\ loader.items[1].id # loader.items[2].id
  /\ Truthy(loader.items[1].id)
  /\ LoadFetches # {}

\* ---------------------------------------------------------------- C16
\* C16: in every reachable state only entries of type node or network have
\* children, and every children fetch in flight was issued for an entry of
\* type node or network.
C16_OnlyNodesExpand ==
  /\ \A p \in Paths(applicationModel) :
       EntryAt(applicationModel, p).children # <<>> =>
         EntryAt(applicationModel, p).type \in {"node", "network"}
  /\ \A k \in 1..Len(fetches) : fetches[k].type \in {"node", "network"}

\* ---------------------------------------------------------------- C19
\* the references the component holds
HeldRefs ==
  {view.selected[k] : k \in 1..Len(view.selected)}
    \cup {view.open[k] : k \in 1..Len(view.open)}
    \cup {view.active[k] : k \in 1..Len(view.active)}

\* C19: when Initialize has rebuilt the forest, selected, open and active are
\* cleared, and in every reachable state each of them refers to entries of
\* the current forest only.
C19_ReferencesCleared ==
  /\ last.op = "Initialize" => HeldRefs = {}
  /\ \A r \in HeldRefs : r.live

\* ---------------------------------------------------------------- C21
\* p comes before q in the depth-first pre-order of a forest: an entry before
\* its descendants, the subtree of an entry before its later siblings
RECURSIVE PreOrderBefore(_, _)
PreOrderBefore(p, q) ==
  IF p = <<>> THEN q # <<>>
  ELSE IF q = <<>> THEN FALSE
  ELSE IF Head(p) # Head(q) THEN Head(p) < Head(q)
  ELSE PreOrderBefore(Tail(p), Tail(q))

\* C21: searchApplicationModel returns the entry with the target's id and
\* type that comes first in the depth-first pre-order of the forest, also when
\* several entries have them.
C21_LocateReturnsFirstInPreOrder ==
  last.op = "Locate" =>
    LET m == Matches(applicationModel, last.id, last.type)
    IN  m # {} =>
          /\ last.path # <<>>
          /\ last.path[1] \in m
          /\ \A q \in m : q = last.path[1] \/ PreOrderBefore(last.path[1], q)

\* of three matches the one returned is the first root; its child and the
\* second root are the others
C21_Witness ==
  /\ last.op = "Locate"
  /\ last.path = << <<1>> >>
  /\ {<<1, 1>>, <<2>>} \subseteq Matches(applicationModel, last.id, last.type)

\* ---------------------------------------------------------------- C22
\* C22: once the response has resolved, locating the target, building the
\* children and assigning them are one step: the forest after the step is the
\* forest before it with the children assigned to the entry located in it, and
\* no Initialize and no other assignment has taken place in between.
C22_LocateAndAssignInOneStep ==
  [][(last'.op = "FetchOk" /\ last'.path # <<>>) =>
       /\ last'.path[1] \in Matches(applicationModel, last'.id, last'.type)
       /\ last'.path[1] \in Paths(applicationModel')
       /\ applicationModel' =
            AssignChildren(applicationModel, last'.path[1],
                           EntryAt(applicationModel', last'.path[1]).children)
       /\ networks' = networks
    ]_vars

\* a response was applied to a root while another root had children and
\* another fetch was in flight
C22_Witness ==
  /\ last.op = "FetchOk"
  /\ last.path # <<>>
  /\ Len(applicationModel) = 2
  /\ Len(last.path[1]) = 1
  /\ \E i \in 1..2 : <<i>> # last.path[1] /\ applicationModel[i].children # <<>>
  /\ fetches # <<>>

C24_NoAutomaticRetry ==
  [][/\ (last'.op = "RefreshChildren") =>
          \/ fetches' = fetches
          \/ /\ Len(fetches') = Len(fetches) + 1
             /\ SubSeq(fetches', 1, Len(fetches)) = fetches
     /\ (last'.op = "FetchFail") =>
          \E i \in 1..Len(fetches) :
            /\ fetches[i].id = last'.id
            /\ fetches[i].type = last'.type
            /\ \/ fetches' = RemoveAt(fetches, i)
               \/ /\ last'.owner = 1
                  /\ loader'.pc = "children"
                  /\ loader'.idx > loader.idx
                  /\ fetches' = Append(RemoveAt(fetches, i),
                                       [id    |-> loader.items[loader'.idx].id,
                                        type  |-> loader.items[loader'.idx].type,
                                        owner |-> 1, stale |-> FALSE])
    ]_vars

\* a refresh dispatched by the view has failed and no fetch is in flight
C24_Witness ==
  /\ last.op = "FetchFail"
  /\ last.owner = 0
  /\ last.reported
  /\ fetches = <<>>
  /\ loader.pc = "idle"
  /\ applicationModel # <<>>

\* ---------------------------------------------------------------- C25
\* sign of an integer
Sign(n) == IF n < 0 THEN 0 - 1 ELSE IF n > 0 THEN 1 ELSE 0

\* C25: the comparator of the sort is a consistent ordering: compare(a, b)
\* and compare(b, a) have opposite signs or are both 0, and compare(a, b) is
\* negative whenever the type of a is greater than the type of b.
C25_ComparatorConsistent ==
  (last.op = "Compare") =>
    /\ Sign(last.result[1]) = 0 - Sign(last.result[2])
    /\ TypeRank(last.data[1].child_type) > TypeRank(last.data[2].child_type)
         => last.result[1] < 0

\* ---------------------------------------------------------------- C26
\* p is a proper prefix of q
ProperPrefix(p, q) == Len(p) < Len(q) /\ SubSeq(q, 1, Len(p)) = p

\* C26: a successful RefreshChildren whose target E is found changes nothing
\* but the children of E: the roots are the same in number and order, and
\* every entry that is neither E nor a former descendant of E is where it was
\* with its id, name, type and key, and with its children (for an ancestor of
\* E, the same children but for what E holds).
C26_OnlyTargetChildrenChange ==
  [][(last'.op = "FetchOk" /\ last'.path # <<>>) =>
       LET E == last'.path[1]
       IN  /\ Len(applicationModel') = Len(applicationModel)
           /\ \A q \in Paths(applicationModel) :
                (q # E /\ ~ProperPrefix(E, q)) =>
                  /\ q \in Paths(applicationModel')
                  /\ EntryAt(applicationModel', q).id = EntryAt(applicationModel, q).id
                  /\ EntryAt(applicationModel', q).name = EntryAt(applicationModel, q).name
                  /\ EntryAt(applicationModel', q).type = EntryAt(applicationModel, q).type
                  /\ EntryAt(applicationModel', q).key = EntryAt(applicationModel, q).key
                  /\ IF ProperPrefix(q, E)
                     THEN Len(EntryAt(applicationModel', q).children)
                            = Len(EntryAt(applicationModel, q).children)
                     ELSE EntryAt(applicationModel', q).children
                            = EntryAt(applicationModel, q).children
           /\ EntryAt(applicationModel', E).id = EntryAt(applicationModel, E).id
           /\ EntryAt(applicationModel', E).name = EntryAt(applicationModel, E).name
           /\ EntryAt(applicationModel', E).type = EntryAt(applicationModel, E).type
           /\ EntryAt(applicationModel', E).key = EntryAt(applicationModel, E).key
    ]_vars

\* a refresh by the view assigned to the second root while the first root
\* had children
C26_Witness ==
  /\ last.op = "FetchOk"
  /\ last.owner = 0
  /\ last.path = << <<2>> >>
  /\ Len(applicationModel) = 2
  /\ applicationModel[1].children # <<>>

\* ---------------------------------------------------------------- C27
\* C27: when two fetches for the same id and type were in flight at once and
\* both have succeeded, the children of the entry are those built from the
\* response that arrived last, whichever of the two was issued first.
C27_LastResponseWins ==
  (fetches = <<>> /\ last.op = "FetchOk") =>
    /\ last.path = << <<1>> >>
    /\ applicationModel[1].children = ChildEntries(SortChildren(last.data, engine))

\* the refresh of the view was issued before the fetch of the load and its
\* response arrived after it
C27_Witness ==
  /\ fetches = <<>>
  /\ last.op = "FetchOk"
  /\ last.owner = 0
  /\ last.stale
  /\ last.data # <<>>
  /\ applicationModel[1].children # <<>>

\* ---------------------------------------------------------------- C28
\* C28: when the load has run to completion with a list fetch and child
\* fetches that all succeeded and nothing interleaved, the children of every
\* root are the sorted entries built from the child list the backend holds
\* for that network.
C28_LoadFillsEveryRoot ==
  (loader.pc = "idle" /\ last.op \in {"Initialize", "FetchOk"}) =>
    \A i \in 1..Len(applicationModel) :
      applicationModel[i].children =
        ChildEntries(SortChildren(BackendChildren(applicationModel[i].id), engine))

C30_RootsMirrorNetworks ==
  /\ Len(applicationModel) = Len(networks)
  /\ \A i \in 1..Len(networks) :
       /\ applicationModel[i].id = networks[i].id
       /\ applicationModel[i].name = networks[i].name
       /\ applicationModel[i].type = "network"

\* the children response of an earlier call was assigned in the forest that
\* the list of a later call had rebuilt with two roots
C30_Witness ==
  /\ last.op = "FetchOk"
  /\ last.owner = 3
  /\ last.stale
  /\ last.path # <<>>
  /\ last.data # <<>>
  /\ Len(networks) = 2
  /\ networks[1].id # networks[2].id

====
